---- MODULE Spec2Model ----
(***************************************************************************)
(* Model of the in-memory resource service of SimpleMicroservices          *)
(* (src/main.py, src/models/product.py, src/models/order.py).              *)
(*                                                                         *)
(* A store is a Python dict: a sequence of [key, val] entries in insertion *)
(* order.  Money is counted in mills (1/1000 USD); every price of the      *)
(* model is a multiple of 125 mills (1/8 USD), which a binary float holds  *)
(* exactly, so float sums and products are exact and round(x, 2) is        *)
(* round-half-even on the exact value.                                     *)
(***************************************************************************)
EXTENDS Integers, Sequences, FiniteSets, TLC

VARIABLES persons, addresses, products, orders, now, quoted, last, threads, base

vars == <<persons, addresses, products, orders, now, quoted, last, threads, base>>

----------------------------------------------------------------------------
(* Bounds *)
MaxClock == 1
MaxEntities == 2

----------------------------------------------------------------------------
(* Optional values: None is the empty tuple, a present value v is <<v>>.   *)
None == <<>>
Some(v) == <<v>>
IsNone(o) == Len(o) = 0
Val(o) == o[1]

(* Identifiers (UUIDs) *)
ProductIds == {"p1", "p2"}
OrderIds == {"o1", "o2"}

(* Strings that are searched (name, customer_name) are sequences of
   characters; other strings are compared whole. *)

----------------------------------------------------------------------------
(* Python dict, insertion ordered *)
Keys(store) == {store[i].key : i \in DOMAIN store}

Lookup(store, k) == store[CHOOSE i \in DOMAIN store : store[i].key = k].val

Put(store, k, v) ==
    IF k \in Keys(store)
    THEN [i \in DOMAIN store |-> IF store[i].key = k THEN [key |-> k, val |-> v] ELSE store[i]]
    ELSE Append(store, [key |-> k, val |-> v])

Del(store, k) == SelectSeq(store, LAMBDA e : e.key # k)

Values(store) == [i \in DOMAIN store |-> store[i].val]

(* dict.update(updates): overlay of the keys present in updates *)
DictUpdate(data, updates) ==
    [f \in DOMAIN data |-> IF f \in DOMAIN updates THEN updates[f] ELSE data[f]]

----------------------------------------------------------------------------
(* mutant: ties rounded up *)
Round2HalfUp(m) == IF m % 10 < 5 THEN 10 * (m \div 10) ELSE 10 * (m \div 10 + 1)

(* round(total, 2): to a multiple of 10 mills, ties to even *)
Round2(m) ==
    LET q == m \div 10
        r == m % 10
    IN  IF r < 5 THEN 10 * q
        ELSE IF r > 5 THEN 10 * (q + 1)
        ELSE IF q % 2 = 0 THEN 10 * q ELSE 10 * (q + 1)

(* LineItem objects and their model_dump() dictionaries *)
LineItem(p, q) == [tag |-> "LineItem", product_id |-> p, quantity |-> q]
DumpItem(li) == [tag |-> "dict", product_id |-> li.product_id, quantity |-> li.quantity]
DumpItems(items) == [i \in DOMAIN items |-> DumpItem(items[i])]
ValidateItems(items) ==
    [i \in DOMAIN items |-> LineItem(items[i].product_id, items[i].quantity)]

RECURSIVE TotalFrom(_, _, _, _)
TotalFrom(line_items, prods, i, total) ==
    IF i > Len(line_items) THEN [status |-> "ok", total |-> Round2(total), missing |-> ""]
    ELSE IF line_items[i].tag # "LineItem"
         THEN [status |-> "InternalError", total |-> 0, missing |-> ""]
    ELSE IF line_items[i].product_id \notin Keys(prods)
         THEN [status |-> "InvalidReference", total |-> 0,
               missing |-> line_items[i].product_id]
    ELSE TotalFrom(line_items, prods, i + 1,
                   total + Lookup(prods, line_items[i].product_id).price
                           * line_items[i].quantity)

compute_order_total(line_items, prods) == TotalFrom(line_items, prods, 1, 0)

----------------------------------------------------------------------------
(* Responses *)
Fail(status) == [status |-> status, ret |-> None]
Ok(ret) == [status |-> "ok", ret |-> ret]

----------------------------------------------------------------------------
(* Product *)
ProductRead(product, created, updated) ==
    [id |-> product.id, name |-> product.name, description |-> product.description,
     price |-> product.price, in_stock |-> product.in_stock,
     created_at |-> created, updated_at |-> updated]

(* ProductRead.model_dump(): every field as the Python value it holds *)
DumpProduct(p) ==
    [id |-> p.id, name |-> Some(p.name), description |-> p.description,
     price |-> Some(p.price), in_stock |-> Some(p.in_stock),
     created_at |-> p.created_at, updated_at |-> p.updated_at]

(* Validation of ProductRead: name, price and in_stock must not be None *)
ProductValid(data) ==
    ~IsNone(data.name) /\ ~IsNone(data.price) /\ ~IsNone(data.in_stock)

ParseProduct(data) ==
    [id |-> data.id, name |-> Val(data.name), description |-> data.description,
     price |-> Val(data.price), in_stock |-> Val(data.in_stock),
     created_at |-> data.created_at, updated_at |-> data.updated_at]

(* mutant: no duplicate check, the stored product is overwritten *)
create_product_overwrite(store, product, t1, t2) ==
    LET prod == ProductRead(product, t1, t2)
    IN  [store |-> Put(store, prod.id, prod), resp |-> Ok(prod)]

create_product(store, product, t1, t2) ==
    IF product.id \in Keys(store)
    THEN [store |-> store, resp |-> Fail("Conflict")]
    ELSE LET prod == ProductRead(product, t1, t2)
         IN  [store |-> Put(store, prod.id, prod), resp |-> Ok(prod)]

get_product(store, product_id) ==
    IF product_id \notin Keys(store) THEN Fail("NotFound")
    ELSE Ok(Lookup(store, product_id))

(* mutant: the patch is dumped with exclude_none, a null no longer clears *)
update_product_exclude_none(store, product_id, patch, t) ==
    IF product_id \notin Keys(store)
    THEN [store |-> store, resp |-> Fail("NotFound")]
    ELSE LET data == DumpProduct(Lookup(store, product_id))
             updates == [f \in {g \in DOMAIN patch : ~IsNone(patch[g])} |-> patch[f]]
             merged == DictUpdate(data, updates)
             updated == ParseProduct([merged EXCEPT !.updated_at = t])
         IN  [store |-> Put(store, product_id, updated), resp |-> Ok(updated)]

(* mutant: updated_at is not refreshed *)
update_product_no_stamp(store, product_id, patch, t) ==
    IF product_id \notin Keys(store)
    THEN [store |-> store, resp |-> Fail("NotFound")]
    ELSE LET data == DumpProduct(Lookup(store, product_id))
             merged == DictUpdate(data, patch)
         IN  IF ~ProductValid(merged)
             THEN [store |-> store, resp |-> Fail("InternalError")]
             ELSE LET updated == ParseProduct(merged)
                  IN  [store |-> Put(store, product_id, updated), resp |-> Ok(updated)]

update_product(store, product_id, patch, t) ==
    IF product_id \notin Keys(store)
    THEN [store |-> store, resp |-> Fail("NotFound")]
    ELSE LET data == DumpProduct(Lookup(store, product_id))
             merged == DictUpdate(data, patch)
             stamped == [merged EXCEPT !.updated_at = t]
         IN  IF ~ProductValid(stamped)
             THEN [store |-> store, resp |-> Fail("InternalError")]
             ELSE LET updated == ParseProduct(stamped)
                  IN  [store |-> Put(store, product_id, updated), resp |-> Ok(updated)]

(* mutant: the whole store is cleared *)
delete_product_all(store, product_id) ==
    IF product_id \notin Keys(store)
    THEN [store |-> store, resp |-> Fail("NotFound")]
    ELSE [store |-> <<>>, resp |-> Ok(None)]

delete_product(store, product_id) ==
    IF product_id \notin Keys(store)
    THEN [store |-> store, resp |-> Fail("NotFound")]
    ELSE [store |-> Del(store, product_id), resp |-> Ok(None)]

----------------------------------------------------------------------------
(* Order *)
OrderRead(data, created, updated) ==
    [id |-> data.id, customer_name |-> data.customer_name,
     items |-> ValidateItems(data.items), note |-> data.note,
     created_at |-> created, updated_at |-> updated,
     total_amount |-> data.total_amount]

(* mutant: a successful create takes the ordered quantities out of in_stock *)
create_order_decrement(ostore, pstore, order, t1, t2) ==
    LET priced == compute_order_total(order.items, pstore)
        data == [id |-> order.id, customer_name |-> order.customer_name,
                 items |-> DumpItems(order.items), note |-> order.note,
                 total_amount |-> priced.total]
        orr == OrderRead(data, t1, t2)
        Ordered(k) == {j \in DOMAIN order.items : order.items[j].product_id = k}
        taken == [i \in DOMAIN pstore |->
                     [pstore[i] EXCEPT !.val.in_stock =
                         IF Ordered(pstore[i].key) = {} \/ @ = 0 THEN @ ELSE @ - 1]]
    IN  IF priced.status # "ok"
        THEN [store |-> ostore, products |-> pstore, resp |-> Fail(priced.status)]
        ELSE IF orr.id \in Keys(ostore)
             THEN [store |-> ostore, products |-> pstore, resp |-> Fail("Conflict")]
             ELSE [store |-> Put(ostore, orr.id, orr), products |-> taken,
                   resp |-> Ok(orr)]

(* mutant: the stored snapshot is built a second time, after the returned one *)
create_order_rebuilt(ostore, pstore, order, t1, t2) ==
    LET priced == compute_order_total(order.items, pstore)
        data == [id |-> order.id, customer_name |-> order.customer_name,
                 items |-> DumpItems(order.items), note |-> order.note,
                 total_amount |-> priced.total]
        orr == OrderRead(data, t1, t2)
    IN  IF priced.status # "ok"
        THEN [store |-> ostore, products |-> pstore, resp |-> Fail(priced.status)]
        ELSE IF orr.id \in Keys(ostore)
             THEN [store |-> ostore, products |-> pstore, resp |-> Fail("Conflict")]
             ELSE [store |-> Put(ostore, orr.id, OrderRead(data, t2, t2)),
                   products |-> pstore, resp |-> Ok(orr)]

(* the Order handlers reach both module-level dicts: they return the products
   dict as they leave it next to the orders dict *)
create_order(ostore, pstore, order, t1, t2) ==
    LET priced == compute_order_total(order.items, pstore)
    IN  IF priced.status # "ok"
        THEN [store |-> ostore, products |-> pstore, resp |-> Fail(priced.status)]
        ELSE LET data == [id |-> order.id, customer_name |-> order.customer_name,
                          items |-> DumpItems(order.items), note |-> order.note,
                          total_amount |-> priced.total]
                 orr == OrderRead(data, t1, t2)
             IN  IF orr.id \in Keys(ostore)
                 THEN [store |-> ostore, products |-> pstore, resp |-> Fail("Conflict")]
                 ELSE [store |-> Put(ostore, orr.id, orr), products |-> pstore,
                       resp |-> Ok(orr)]

get_order(ostore, order_id) ==
    IF order_id \notin Keys(ostore) THEN Fail("NotFound")
    ELSE Ok(Lookup(ostore, order_id))

(* mutant: created_at is dropped from the dump, so the rebuilt OrderRead takes
   its default, the clock *)
update_order_restamp(ostore, pstore, order_id, patch, t) ==
    IF order_id \notin Keys(ostore)
    THEN [store |-> ostore, products |-> pstore, resp |-> Fail("NotFound")]
    ELSE LET stored == Lookup(ostore, order_id)
             data1 == IF "customer_name" \in DOMAIN patch /\ ~IsNone(patch.customer_name)
                      THEN [stored EXCEPT !.customer_name = Val(patch.customer_name)]
                      ELSE stored
             setItems == "items" \in DOMAIN patch /\ ~IsNone(patch.items)
             priced == IF setItems THEN compute_order_total(Val(patch.items), pstore)
                       ELSE [status |-> "ok", total |-> data1.total_amount, missing |-> ""]
             data2 == IF setItems
                      THEN [data1 EXCEPT !.items = Val(patch.items),
                                         !.total_amount = priced.total]
                      ELSE data1
             data3 == IF "note" \in DOMAIN patch
                      THEN [data2 EXCEPT !.note = patch.note]
                      ELSE data2
             updated == OrderRead(data3, t, t)
         IN  IF priced.status # "ok"
             THEN [store |-> ostore, products |-> pstore, resp |-> Fail(priced.status)]
             ELSE [store |-> Put(ostore, order_id, updated), products |-> pstore,
                   resp |-> Ok(updated)]

(* mutant: the total is recomputed on every patch, from the current prices *)
update_order_reprice(ostore, pstore, order_id, patch, t) ==
    IF order_id \notin Keys(ostore)
    THEN [store |-> ostore, products |-> pstore, resp |-> Fail("NotFound")]
    ELSE LET stored == Lookup(ostore, order_id)
             data0 == [stored EXCEPT !.items = DumpItems(stored.items)]
             data1 == IF "customer_name" \in DOMAIN patch /\ ~IsNone(patch.customer_name)
                      THEN [data0 EXCEPT !.customer_name = Val(patch.customer_name)]
                      ELSE data0
             setItems == "items" \in DOMAIN patch /\ ~IsNone(patch.items)
             priced == compute_order_total(
                           IF setItems THEN Val(patch.items) ELSE stored.items, pstore)
             data2 == IF setItems
                      THEN [data1 EXCEPT !.items = Val(patch.items),
                                         !.total_amount = priced.total]
                      ELSE [data1 EXCEPT !.total_amount = priced.total]
             data3 == IF "note" \in DOMAIN patch
                      THEN [data2 EXCEPT !.note = patch.note]
                      ELSE data2
             updated == OrderRead(data3, data3.created_at, t)
         IN  IF priced.status # "ok"
             THEN [store |-> ostore, products |-> pstore, resp |-> Fail(priced.status)]
             ELSE [store |-> Put(ostore, order_id, updated), products |-> pstore,
                   resp |-> Ok(updated)]

update_order(ostore, pstore, order_id, patch, t) ==
    IF order_id \notin Keys(ostore)
    THEN [store |-> ostore, products |-> pstore, resp |-> Fail("NotFound")]
    ELSE LET stored == Lookup(ostore, order_id)
             data0 == [stored EXCEPT !.items = DumpItems(stored.items)]
             data1 == IF "customer_name" \in DOMAIN patch /\ ~IsNone(patch.customer_name)
                      THEN [data0 EXCEPT !.customer_name = Val(patch.customer_name)]
                      ELSE data0
             setItems == "items" \in DOMAIN patch /\ ~IsNone(patch.items)
             priced == IF setItems THEN compute_order_total(Val(patch.items), pstore)
                       ELSE [status |-> "ok", total |-> data1.total_amount, missing |-> ""]
             data2 == IF setItems
                      THEN [data1 EXCEPT !.items = Val(patch.items),
                                         !.total_amount = priced.total]
                      ELSE data1
             data3 == IF "note" \in DOMAIN patch
                      THEN [data2 EXCEPT !.note = patch.note]
                      ELSE data2
             updated == OrderRead(data3, data3.created_at, t)
         IN  IF priced.status # "ok"
             THEN [store |-> ostore, products |-> pstore, resp |-> Fail(priced.status)]
             ELSE [store |-> Put(ostore, order_id, updated), products |-> pstore,
                   resp |-> Ok(updated)]

delete_order(ostore, pstore, order_id) ==
    IF order_id \notin Keys(ostore)
    THEN [store |-> ostore, products |-> pstore, resp |-> Fail("NotFound")]
    ELSE [store |-> Del(ostore, order_id), products |-> pstore, resp |-> Ok(None)]

----------------------------------------------------------------------------
(* Address *)
AddressFields == {"street", "city", "state", "postal_code", "country"}

AddressRead(address) ==
    [id |-> address.id, street |-> address.street, city |-> address.city,
     state |-> address.state, postal_code |-> address.postal_code,
     country |-> address.country]

create_address(store, address) ==
    IF address.id \in Keys(store)
    THEN [store |-> store, resp |-> Fail("Conflict")]
    ELSE LET stored == Put(store, address.id, AddressRead(address))
         IN  [store |-> stored, resp |-> Ok(Lookup(stored, address.id))]

get_address(store, address_id) ==
    IF address_id \notin Keys(store) THEN Fail("NotFound")
    ELSE Ok(Lookup(store, address_id))

update_address(store, address_id, update) ==
    IF address_id \notin Keys(store)
    THEN [store |-> store, resp |-> Fail("NotFound")]
    ELSE LET stored == DictUpdate(Lookup(store, address_id),
                                  [f \in DOMAIN update |-> Val(update[f])])
             written == Put(store, address_id, AddressRead(stored))
         IN  [store |-> written, resp |-> Ok(Lookup(written, address_id))]

----------------------------------------------------------------------------
(* Person *)
PersonFields ==
    {"uni", "first_name", "last_name", "email", "phone", "birth_date", "addresses"}

PersonRead(person, id) ==
    [id |-> id, uni |-> person.uni, first_name |-> person.first_name,
     last_name |-> person.last_name, email |-> person.email, phone |-> person.phone,
     birth_date |-> person.birth_date, addresses |-> person.addresses]

(* create_person stores under the id that PersonRead allocates *)
create_person(store, person, uuid) ==
    LET person_read == PersonRead(person, uuid)
    IN  [store |-> Put(store, person_read.id, person_read), resp |-> Ok(person_read)]

get_person(store, person_id) ==
    IF person_id \notin Keys(store) THEN Fail("NotFound")
    ELSE Ok(Lookup(store, person_id))

update_person(store, person_id, update) ==
    IF person_id \notin Keys(store)
    THEN [store |-> store, resp |-> Fail("NotFound")]
    ELSE LET stored == DictUpdate(Lookup(store, person_id),
                                  [f \in DOMAIN update |-> Val(update[f])])
             written == Put(store, person_id, PersonRead(stored, stored.id))
         IN  [store |-> written, resp |-> Ok(Lookup(written, person_id))]

----------------------------------------------------------------------------
(* str.lower() and the substring test `needle in haystack` *)
LowerChar(c) ==
    CASE c = "A" -> "a" [] c = "B" -> "b" [] c = "G" -> "g"
      [] c = "I" -> "i" [] c = "L" -> "l" [] c = "W" -> "w"
      [] OTHER -> c

Lower(str) == [i \in DOMAIN str |-> LowerChar(str[i])]

Contains(haystack, needle) ==
    \E i \in 0..(Len(haystack) - Len(needle)) :
        SubSeq(haystack, i + 1, i + Len(needle)) = needle

(* `if name:` is false for None and for the empty string *)
Truthy(q) == ~IsNone(q) /\ Len(Val(q)) > 0

(* mutant: the names are compared without lower() *)
list_products_cased(store, name) ==
    LET results == Values(store)
    IN  IF Truthy(name)
        THEN SelectSeq(results, LAMBDA p : Contains(p.name, Val(name)))
        ELSE results

list_products(store, name) ==
    LET results == Values(store)
    IN  IF Truthy(name)
        THEN SelectSeq(results, LAMBDA p : Contains(Lower(p.name), Lower(Val(name))))
        ELSE results

list_orders(ostore, customer_name) ==
    LET results == Values(ostore)
    IN  IF Truthy(customer_name)
        THEN SelectSeq(results,
                 LAMBDA o : Contains(Lower(o.customer_name), Lower(Val(customer_name))))
        ELSE results

(* one `if q is not None: results = [...]` step of a list handler, on field f *)
FilterEq(results, q, f) ==
    IF ~IsNone(q) THEN SelectSeq(results, LAMBDA e : e[f] = Val(q)) ELSE results

list_addresses(store, q) ==
    LET r0 == Values(store)
        r1 == FilterEq(r0, q.street, "street")
        r2 == FilterEq(r1, q.city, "city")
        r3 == FilterEq(r2, q.state, "state")
        r4 == FilterEq(r3, q.postal_code, "postal_code")
    IN  FilterEq(r4, q.country, "country")

(* str(date): ISO format, zero padded *)
Pad2(n) == IF n < 10 THEN "0" \o ToString(n) ELSE ToString(n)
DateStr(d) == ToString(d[1]) \o "-" \o Pad2(d[2]) \o "-" \o Pad2(d[3])

(* `any(addr.f == q for addr in p.addresses)` *)
FilterAny(results, q, f) ==
    IF ~IsNone(q)
    THEN SelectSeq(results,
             LAMBDA p : \E i \in DOMAIN p.addresses : p.addresses[i][f] = Val(q))
    ELSE results

list_persons(store, q) ==
    LET r0 == Values(store)
        r1 == FilterEq(r0, q.uni, "uni")
        r2 == FilterEq(r1, q.first_name, "first_name")
        r3 == FilterEq(r2, q.last_name, "last_name")
        r4 == FilterEq(r3, q.email, "email")
        r5 == FilterEq(r4, q.phone, "phone")
        r6 == IF ~IsNone(q.birth_date)
              THEN SelectSeq(r5, LAMBDA p : DateStr(p.birth_date) = Val(q.birth_date))
              ELSE r5
        r7 == FilterAny(r6, q.city, "city")
    IN  FilterAny(r7, q.country, "country")

----------------------------------------------------------------------------
(* Request payloads *)
ProductPayloads ==
    { [name |-> <<"W", "i">>, description |-> Some("d"), price |-> 125, in_stock |-> 3],
      [name |-> <<"i", "G">>, description |-> None, price |-> 500, in_stock |-> 0] }

ProductCreates ==
    { [id |-> i, name |-> b.name, description |-> b.description, price |-> b.price,
       in_stock |-> b.in_stock] : i \in ProductIds, b \in ProductPayloads }

ProductPatches ==
    { <<>>,
      [price |-> Some(500)],
      [description |-> None],
      [name |-> Some(<<"i", "G">>), in_stock |-> Some(0)],
      [name |-> None, price |-> Some(125)] }

OrderPayloads ==
    { [customer_name |-> <<"A", "l">>, items |-> <<LineItem("p1", 1), LineItem("p1", 2)>>,
       note |-> Some("d")],
      [customer_name |-> <<"B">>, items |-> <<LineItem("p2", 1), LineItem("p1", 1)>>,
       note |-> None],
      [customer_name |-> <<"B">>, items |-> <<LineItem("p2", 1)>>, note |-> None] }

OrderCreates ==
    { [id |-> i, customer_name |-> b.customer_name, items |-> b.items, note |-> b.note] :
      i \in OrderIds, b \in OrderPayloads }

OrderPatches ==
    { <<>>,
      [note |-> None],
      [customer_name |-> None, note |-> Some("d")],
      [customer_name |-> Some(<<"B">>), items |-> None],
      [items |-> Some(<<>>)],
      [items |-> Some(DumpItems(<<LineItem("p1", 1)>>)), note |-> None,
       customer_name |-> Some(<<"B">>)],
      [items |-> Some(DumpItems(<<LineItem("p2", 3)>>))] }

AddressIds == {"a1", "a2"}
PersonIds == {"u1", "u2"}

AddressPayloads ==
    { [street |-> "1 Main", city |-> "Boston", state |-> "MA", postal_code |-> "02101",
       country |-> "US"],
      [street |-> "2 High", city |-> "boston", state |-> "MA", postal_code |-> "10001",
       country |-> "UK"] }

AddressCreates ==
    { [id |-> i, street |-> b.street, city |-> b.city, state |-> b.state,
       postal_code |-> b.postal_code, country |-> b.country] :
      i \in AddressIds, b \in AddressPayloads }

AddressPatches ==
    { <<>>,
      [city |-> Some("boston")],
      [street |-> Some("2 High"), country |-> Some("UK")] }

NoAddressQuery ==
    [street |-> None, city |-> None, state |-> None, postal_code |-> None, country |-> None]

AddressQueries ==
    { NoAddressQuery,
      [NoAddressQuery EXCEPT !.city = Some("Boston")],
      [NoAddressQuery EXCEPT !.state = Some("MA"), !.country = Some("US")],
      [NoAddressQuery EXCEPT !.street = Some("2 High"), !.postal_code = Some("02101")] }

Home == [id |-> "a1", street |-> "1 Main", city |-> "Boston", state |-> "MA",
         postal_code |-> "02101", country |-> "US"]
Away == [id |-> "a2", street |-> "2 High", city |-> "boston", state |-> "MA",
         postal_code |-> "10001", country |-> "UK"]

PersonCreates ==
    { [uni |-> "ab1", first_name |-> "Ada", last_name |-> "L", email |-> "a@x",
       phone |-> "1", birth_date |-> <<2000, 1, 2>>, addresses |-> <<Away, Home>>],
      [uni |-> "cd2", first_name |-> "Ada", last_name |-> "M", email |-> "c@x",
       phone |-> "1", birth_date |-> <<1999, 12, 31>>, addresses |-> <<Away>>] }

PersonPatches ==
    { <<>>,
      [first_name |-> Some("Bob")],
      [addresses |-> Some(<<>>), uni |-> Some("cd2")],
      [birth_date |-> Some(<<2000, 1, 2>>), addresses |-> Some(<<Home>>)] }

NoPersonQuery ==
    [uni |-> None, first_name |-> None, last_name |-> None, email |-> None,
     phone |-> None, birth_date |-> None, city |-> None, country |-> None]

PersonQueries ==
    { NoPersonQuery,
      [NoPersonQuery EXCEPT !.city = Some("Boston")],
      [NoPersonQuery EXCEPT !.first_name = Some("Ada"), !.country = Some("UK"),
                            !.uni = Some("ab1")],
      [NoPersonQuery EXCEPT !.birth_date = Some("2000-01-02")],
      [NoPersonQuery EXCEPT !.birth_date = Some("2000-1-2"), !.phone = Some("1")],
      [NoPersonQuery EXCEPT !.last_name = Some("M"), !.email = Some("c@x"),
                            !.city = Some("boston")] }

NameQueries == {None, Some(<<>>), Some(<<"w">>), Some(<<"I", "g">>)}
CustomerQueries == {None, Some(<<>>), Some(<<"a", "L">>)}

----------------------------------------------------------------------------
(* State *)
Entities == Len(persons) + Len(addresses) + Len(products) + Len(orders)

Idle == [op |-> "idle", arg |-> None, status |-> "ok", ret |-> None]

Request(op, arg, resp) == [op |-> op, arg |-> arg, status |-> resp.status, ret |-> resp.ret]

(* unit prices found in the catalog for a list of line items *)
Quote(items, pstore) ==
    [i \in DOMAIN items |-> Lookup(pstore, items[i].product_id).price]

Init ==
    /\ persons = <<>>
    /\ addresses = <<>>
    /\ products = <<>>
    /\ orders = <<>>
    /\ now = 0
    /\ quoted = [o \in OrderIds |-> <<>>]
    /\ last = Idle
    /\ threads = <<>>
    /\ base = <<>>

Tick ==
    /\ now < MaxClock
    /\ now' = now + 1
    /\ UNCHANGED <<persons, addresses, products, orders, quoted, last, threads, base>>

CreateProduct ==
    /\ last = Idle
    /\ \E product \in ProductCreates, d \in 0..1 :
        LET r == create_product(products, product, now, now + d)
            ok == r.resp.status = "ok"
        IN  /\ now + d <= MaxClock
            /\ ok => Entities < MaxEntities
            /\ products' = r.store
            /\ now' = IF ok THEN now + d ELSE now
            /\ last' = Request("create_product", product, r.resp)
            /\ UNCHANGED <<persons, addresses, orders, quoted, threads, base>>

ListProducts ==
    /\ last = Idle
    /\ \E name \in NameQueries :
        /\ last' = Request("list_products", name, Ok(list_products(products, name)))
        /\ UNCHANGED <<persons, addresses, products, orders, now, quoted, threads, base>>

GetProduct ==
    /\ last = Idle
    /\ \E product_id \in ProductIds :
        /\ last' = Request("get_product", product_id, get_product(products, product_id))
        /\ UNCHANGED <<persons, addresses, products, orders, now, quoted, threads, base>>

UpdateProduct ==
    /\ last = Idle
    /\ \E product_id \in ProductIds, patch \in ProductPatches :
        LET r == update_product(products, product_id, patch, now)
        IN  /\ products' = r.store
            /\ last' = Request("update_product", [id |-> product_id, patch |-> patch], r.resp)
            /\ UNCHANGED <<persons, addresses, orders, now, quoted, threads, base>>

DeleteProduct ==
    /\ last = Idle
    /\ \E product_id \in ProductIds :
        LET r == delete_product(products, product_id)
        IN  /\ products' = r.store
            /\ last' = Request("delete_product", product_id, r.resp)
            /\ UNCHANGED <<persons, addresses, orders, now, quoted, threads, base>>

CreateOrder ==
    /\ last = Idle
    /\ \E order \in OrderCreates, d \in 0..1 :
        LET r == create_order(orders, products, order, now, now + d)
            ok == r.resp.status = "ok"
        IN  /\ now + d <= MaxClock
            /\ ok => Entities < MaxEntities
            /\ orders' = r.store
            /\ products' = r.products
            /\ now' = IF ok THEN now + d ELSE now
            /\ quoted' = IF ok THEN [quoted EXCEPT ![order.id] = Quote(order.items, products)]
                         ELSE quoted
            /\ last' = Request("create_order", order, r.resp)
            /\ UNCHANGED <<persons, addresses, threads, base>>

ListOrders ==
    /\ last = Idle
    /\ \E customer_name \in CustomerQueries :
        /\ last' = Request("list_orders", customer_name,
                           Ok(list_orders(orders, customer_name)))
        /\ UNCHANGED <<persons, addresses, products, orders, now, quoted, threads, base>>

GetOrder ==
    /\ last = Idle
    /\ \E order_id \in OrderIds :
        /\ last' = Request("get_order", order_id, get_order(orders, order_id))
        /\ UNCHANGED <<persons, addresses, products, orders, now, quoted, threads, base>>

UpdateOrder ==
    /\ last = Idle
    /\ \E order_id \in OrderIds, patch \in OrderPatches :
        LET r == update_order(orders, products, order_id, patch, now)
            ok == r.resp.status = "ok"
            wrote == ok /\ "items" \in DOMAIN patch /\ ~IsNone(patch.items)
        IN  /\ orders' = r.store
            /\ products' = r.products
            /\ quoted' = IF wrote
                         THEN [quoted EXCEPT ![order_id] = Quote(Val(patch.items), products)]
                         ELSE quoted
            /\ last' = Request("update_order", [id |-> order_id, patch |-> patch], r.resp)
            /\ UNCHANGED <<persons, addresses, now, threads, base>>

DeleteOrder ==
    /\ last = Idle
    /\ \E order_id \in OrderIds :
        LET r == delete_order(orders, products, order_id)
        IN  /\ orders' = r.store
            /\ products' = r.products
            /\ quoted' = IF r.resp.status = "ok" THEN [quoted EXCEPT ![order_id] = <<>>]
                         ELSE quoted
            /\ last' = Request("delete_order", order_id, r.resp)
            /\ UNCHANGED <<persons, addresses, now, threads, base>>

CreateAddress ==
    /\ last = Idle
    /\ \E address \in AddressCreates :
        LET r == create_address(addresses, address)
        IN  /\ r.resp.status = "ok" => Entities < MaxEntities
            /\ addresses' = r.store
            /\ last' = Request("create_address", address, r.resp)
            /\ UNCHANGED <<persons, products, orders, now, quoted, threads, base>>

ListAddresses ==
    /\ last = Idle
    /\ \E q \in AddressQueries :
        /\ last' = Request("list_addresses", q, Ok(list_addresses(addresses, q)))
        /\ UNCHANGED <<persons, addresses, products, orders, now, quoted, threads, base>>

GetAddress ==
    /\ last = Idle
    /\ \E address_id \in AddressIds :
        /\ last' = Request("get_address", address_id, get_address(addresses, address_id))
        /\ UNCHANGED <<persons, addresses, products, orders, now, quoted, threads, base>>

UpdateAddress ==
    /\ last = Idle
    /\ \E address_id \in AddressIds, update \in AddressPatches :
        LET r == update_address(addresses, address_id, update)
        IN  /\ addresses' = r.store
            /\ last' = Request("update_address", [id |-> address_id, patch |-> update],
                               r.resp)
            /\ UNCHANGED <<persons, products, orders, now, quoted, threads, base>>

(* uuid4() of PersonRead: an identifier never allocated before *)
CreatePerson ==
    /\ last = Idle
    /\ Entities < MaxEntities
    /\ \E person \in PersonCreates, uuid \in PersonIds \ Keys(persons) :
        LET r == create_person(persons, person, uuid)
        IN  /\ persons' = r.store
            /\ last' = Request("create_person", person, r.resp)
            /\ UNCHANGED <<addresses, products, orders, now, quoted, threads, base>>

ListPersons ==
    /\ last = Idle
    /\ \E q \in PersonQueries :
        /\ last' = Request("list_persons", q, Ok(list_persons(persons, q)))
        /\ UNCHANGED <<persons, addresses, products, orders, now, quoted, threads, base>>

GetPerson ==
    /\ last = Idle
    /\ \E person_id \in PersonIds :
        /\ last' = Request("get_person", person_id, get_person(persons, person_id))
        /\ UNCHANGED <<persons, addresses, products, orders, now, quoted, threads, base>>

UpdatePerson ==
    /\ last = Idle
    /\ \E person_id \in PersonIds, update \in PersonPatches :
        LET r == update_person(persons, person_id, update)
        IN  /\ persons' = r.store
            /\ last' = Request("update_person", [id |-> person_id, patch |-> update],
                               r.resp)
            /\ UNCHANGED <<addresses, products, orders, now, quoted, threads, base>>

(* the transport layer sends the response; the next request may be served *)
Respond ==
    /\ last # Idle
    /\ last' = Idle
    /\ UNCHANGED <<persons, addresses, products, orders, now, quoted, threads, base>>

Next ==
    \/ Tick
    \/ Respond
    \/ CreateAddress
    \/ ListAddresses
    \/ GetAddress
    \/ UpdateAddress
    \/ CreatePerson
    \/ ListPersons
    \/ GetPerson
    \/ UpdatePerson
    \/ CreateProduct
    \/ ListProducts
    \/ GetProduct
    \/ UpdateProduct
    \/ DeleteProduct
    \/ CreateOrder
    \/ ListOrders
    \/ GetOrder
    \/ UpdateOrder
    \/ DeleteOrder

Spec == Init /\ [][Next]_vars

----------------------------------------------------------------------------
(* Two requests on the Product store served by two worker threads.  A handler
   takes its membership test, its read of the dict and its write of the dict
   as separate steps; no lock is held between them. *)
Workers == {1, 2}

Pending == [status |-> "pending", ret |-> None]

ConcRequests ==
    {[op |-> "create_product", id |-> c.id, arg |-> c] : c \in ProductCreates}
    \cup {[op |-> "update_product", id |-> i, arg |-> u] :
            i \in ProductIds, u \in {[price |-> Some(500)], [description |-> None]}}
    \cup {[op |-> "delete_product", id |-> i, arg |-> None] : i \in ProductIds}

ConcBases ==
    {<<>>} \cup {create_product(<<>>, c, 0, 0).store : c \in ProductCreates}

InitConc ==
    /\ persons = <<>>
    /\ addresses = <<>>
    /\ orders = <<>>
    /\ now = 0
    /\ quoted = [o \in OrderIds |-> <<>>]
    /\ last = Idle
    /\ base \in ConcBases
    /\ products = base
    /\ threads \in [Workers -> {[pc |-> "check", req |-> r, local |-> None, resp |-> Pending] :
                                  r \in ConcRequests}]

Finish(t, resp) == [threads EXCEPT ![t].pc = "done", ![t].resp = resp]

(* `if product_id not in products: raise` *)
ConcCheck ==
    \E t \in Workers :
        LET req == threads[t].req
            present == req.id \in Keys(products)
        IN  /\ threads[t].pc = "check"
            /\ threads' =
                   IF req.op = "create_product"
                   THEN IF present THEN Finish(t, Fail("Conflict"))
                        ELSE [threads EXCEPT ![t].pc = "write"]
                   ELSE IF ~present THEN Finish(t, Fail("NotFound"))
                   ELSE IF req.op = "update_product"
                        THEN [threads EXCEPT ![t].pc = "read"]
                        ELSE [threads EXCEPT ![t].pc = "write"]
            /\ UNCHANGED <<persons, addresses, products, orders, now, quoted, last, base>>

(* `data = products[product_id].model_dump()` up to `updated = ProductRead(...)`;
   a key deleted since the test raises KeyError *)
ConcRead ==
    \E t \in Workers :
        LET req == threads[t].req
        IN  /\ threads[t].pc = "read"
            /\ threads' =
                   IF req.id \notin Keys(products) THEN Finish(t, Fail("InternalError"))
                   ELSE LET data == DumpProduct(Lookup(products, req.id))
                            stamped == [DictUpdate(data, req.arg) EXCEPT !.updated_at = now]
                        IN  IF ~ProductValid(stamped) THEN Finish(t, Fail("InternalError"))
                            ELSE [threads EXCEPT ![t].pc = "write",
                                                 ![t].local = ParseProduct(stamped)]
            /\ UNCHANGED <<persons, addresses, products, orders, now, quoted, last, base>>

(* `products[id] = ...` of create and update, `del products[id]` of delete *)
ConcWrite ==
    \E t \in Workers :
        LET req == threads[t].req
            prod == ProductRead(req.arg, now, now)
        IN  /\ threads[t].pc = "write"
            /\ \/ /\ req.op = "create_product"
                  /\ products' = Put(products, req.id, prod)
                  /\ threads' = Finish(t, Ok(prod))
               \/ /\ req.op = "update_product"
                  /\ products' = Put(products, req.id, threads[t].local)
                  /\ threads' = Finish(t, Ok(threads[t].local))
               \/ /\ req.op = "delete_product"
                  /\ req.id \in Keys(products)
                  /\ products' = Del(products, req.id)
                  /\ threads' = Finish(t, Ok(None))
               \/ /\ req.op = "delete_product"
                  /\ req.id \notin Keys(products)
                  /\ products' = products
                  /\ threads' = Finish(t, Fail("InternalError"))
            /\ UNCHANGED <<persons, addresses, orders, now, quoted, last, base>>

NextConc ==
    \/ ConcCheck
    \/ ConcRead
    \/ ConcWrite

SpecConc == InitConc /\ [][NextConc]_vars

----------------------------------------------------------------------------
(* Properties *)

(* a step that serves one request *)
Serves(op) == last = Idle /\ last'.op = op

ProductAt(k) == Lookup(products, k)
OrderAt(k) == Lookup(orders, k)

(* the multiple of 10 mills nearest to m (one of the two around m), the even
   one of two equally near *)
Dist(a, b) == IF a >= b THEN a - b ELSE b - a
NearestCent(m) ==
    LET cents == {10 * k : k \in (m \div 10)..(m \div 10 + 1)}
    IN  CHOOSE c \in cents :
            \A e \in cents \ {c} :
                \/ Dist(c, m) < Dist(e, m)
                \/ Dist(c, m) = Dist(e, m) /\ (c \div 10) % 2 = 0

RECURSIVE QuotedSum(_, _, _)
QuotedSum(prices, items, n) ==
    IF n = 0 THEN 0
    ELSE QuotedSum(prices, items, n - 1) + prices[n] * items[n].quantity

(* C1: every stored order's total_amount is the sum of quantity times the unit
   price quoted when its items were last written, rounded to 2 decimals *)
C1_TotalIsQuotedSum ==
    \A i \in DOMAIN orders :
        LET o == orders[i].val
            q == quoted[orders[i].key]
        IN  /\ Len(q) = Len(o.items)
            /\ o.total_amount = NearestCent(QuotedSum(q, o.items, Len(q)))

C1_Witness ==
    \E i \in DOMAIN orders :
        LET o == orders[i].val
            q == quoted[orders[i].key]
        IN  /\ Len(o.items) = 2
            /\ QuotedSum(q, o.items, Len(q)) % 10 # 0
            /\ \E j \in DOMAIN o.items :
                   /\ o.items[j].product_id \in Keys(products)
                   /\ ProductAt(o.items[j].product_id).price # q[j]

(* the items of an order write name a product id absent from the catalog *)
NamesAbsent(items) == \E j \in DOMAIN items : items[j].product_id \notin Keys(products)

ItemsSupplied(patch) == "items" \in DOMAIN patch /\ ~IsNone(patch.items)

(* C2: an order write naming an absent product id fails with InvalidReference
   and leaves the Order store as it was *)
C2_InvalidReferenceKeepsStore ==
    [][ /\ (Serves("create_order") /\ NamesAbsent(last'.arg.items))
           => (last'.status = "InvalidReference" /\ orders' = orders)
        /\ (/\ Serves("update_order")
            /\ last'.arg.id \in Keys(orders)
            /\ ItemsSupplied(last'.arg.patch)
            /\ NamesAbsent(Val(last'.arg.patch.items)))
           => (last'.status = "InvalidReference" /\ orders' = orders) ]_vars

(* C3 as claimed: a create whose identifier is already a key of its store is
   rejected as Conflict and the store is unchanged *)
C3_DuplicateIsConflict ==
    [][ /\ (Serves("create_address") /\ last'.arg.id \in Keys(addresses))
           => (last'.status = "Conflict" /\ addresses' = addresses)
        /\ (Serves("create_product") /\ last'.arg.id \in Keys(products))
           => (last'.status = "Conflict" /\ products' = products)
        /\ (Serves("create_order") /\ last'.arg.id \in Keys(orders))
           => (last'.status = "Conflict" /\ orders' = orders)
        /\ Serves("create_person")
           => SubSeq(persons', 1, Len(persons)) = persons ]_vars

(* C3 amended: a create whose identifier is already a key of its store is
   rejected and the store is unchanged; the rejection is Conflict, except that
   a duplicate order whose items name an absent product is rejected as
   InvalidReference; create_person never overwrites a stored person *)
C3_DuplicateIsRejected ==
    [][ /\ (Serves("create_address") /\ last'.arg.id \in Keys(addresses))
           => (last'.status = "Conflict" /\ addresses' = addresses)
        /\ (Serves("create_product") /\ last'.arg.id \in Keys(products))
           => (last'.status = "Conflict" /\ products' = products)
        /\ (Serves("create_order") /\ last'.arg.id \in Keys(orders))
           => /\ orders' = orders
              /\ last'.status = IF NamesAbsent(last'.arg.items)
                                THEN "InvalidReference" ELSE "Conflict"
        /\ Serves("create_person")
           => SubSeq(persons', 1, Len(persons)) = persons ]_vars

C3_Witness ==
    /\ last.op = "create_product"
    /\ last.status = "Conflict"
    /\ ProductAt(last.arg.id).price # last.arg.price

(* C4: an update_order without items succeeds on a stored order and leaves its
   items and total_amount as they were *)
C4_NoItemsKeepsTotal ==
    [][ (/\ Serves("update_order")
         /\ last'.arg.id \in Keys(orders)
         /\ ~ItemsSupplied(last'.arg.patch))
        => /\ last'.status = "ok"
           /\ Lookup(orders', last'.arg.id).items = OrderAt(last'.arg.id).items
           /\ Lookup(orders', last'.arg.id).total_amount
                  = OrderAt(last'.arg.id).total_amount ]_vars

C4_Witness ==
    /\ last.op = "update_order"
    /\ last.status = "ok"
    /\ ~ItemsSupplied(last.arg.patch)
    /\ \E j \in DOMAIN last.ret.items :
           \/ last.ret.items[j].product_id \notin Keys(products)
           \/ ProductAt(last.ret.items[j].product_id).price
                  # quoted[last.arg.id][j]

----------------------------------------------------------------------------
(* the Python value a stored field holds, as a patch would supply it *)
PyProduct(p, f) == IF f = "description" THEN p.description ELSE Some(p[f])

PyOrder(o, f) ==
    IF f = "note" THEN o.note
    ELSE IF f = "items"
         THEN Some([j \in DOMAIN o.items |->
                       [tag |-> "dict", product_id |-> o.items[j].product_id,
                        quantity |-> o.items[j].quantity]])
         ELSE Some(o[f])

PyPlain(e, f) == Some(e[f])

ProductPatchFields == {"name", "description", "price", "in_stock"}
OrderPatchFields == {"customer_name", "items", "note"}

(* absent fields keep their value, present fields take the supplied one *)
Overlaid(old, new, patch, fields, Py(_, _)) ==
    \A f \in fields :
        Py(new, f) = IF f \in DOMAIN patch THEN patch[f] ELSE Py(old, f)

(* update_order reads an explicit null of customer_name or items as absent *)
OrderEffective(patch) ==
    [f \in {g \in DOMAIN patch : g = "note" \/ ~IsNone(patch[g])} |-> patch[f]]

PatchedOk(op) == Serves(op) /\ last'.status = "ok"

(* C5 as claimed: after a successful patch every absent field has its previous
   value and every present field, an explicit null included, the supplied one *)
C5_PatchOverlay ==
    [][ /\ PatchedOk("update_product")
           => Overlaid(ProductAt(last'.arg.id), Lookup(products', last'.arg.id),
                       last'.arg.patch, ProductPatchFields, PyProduct)
        /\ PatchedOk("update_order")
           => Overlaid(OrderAt(last'.arg.id), Lookup(orders', last'.arg.id),
                       last'.arg.patch, OrderPatchFields, PyOrder)
        /\ PatchedOk("update_address")
           => Overlaid(Lookup(addresses, last'.arg.id), Lookup(addresses', last'.arg.id),
                       last'.arg.patch, AddressFields, PyPlain)
        /\ PatchedOk("update_person")
           => Overlaid(Lookup(persons, last'.arg.id), Lookup(persons', last'.arg.id),
                       last'.arg.patch, PersonFields, PyPlain) ]_vars

(* C5 amended: the same, except that update_order treats an explicit null of
   customer_name or items as absent *)
C5_PatchOverlayNullable ==
    [][ /\ PatchedOk("update_product")
           => Overlaid(ProductAt(last'.arg.id), Lookup(products', last'.arg.id),
                       last'.arg.patch, ProductPatchFields, PyProduct)
        /\ PatchedOk("update_order")
           => Overlaid(OrderAt(last'.arg.id), Lookup(orders', last'.arg.id),
                       OrderEffective(last'.arg.patch), OrderPatchFields, PyOrder)
        /\ PatchedOk("update_address")
           => Overlaid(Lookup(addresses, last'.arg.id), Lookup(addresses', last'.arg.id),
                       last'.arg.patch, AddressFields, PyPlain)
        /\ PatchedOk("update_person")
           => Overlaid(Lookup(persons, last'.arg.id), Lookup(persons', last'.arg.id),
                       last'.arg.patch, PersonFields, PyPlain) ]_vars

C5_Witness ==
    /\ last.op = "update_order"
    /\ last.status = "ok"
    /\ "customer_name" \in DOMAIN last.arg.patch
    /\ IsNone(last.arg.patch.customer_name)
    /\ last.ret.note = Some("d")

----------------------------------------------------------------------------
TimestampsOrdered ==
    /\ \A i \in DOMAIN products : products[i].val.updated_at >= products[i].val.created_at
    /\ \A i \in DOMAIN orders : orders[i].val.updated_at >= orders[i].val.created_at

Refreshed(old, new) == new.updated_at = now /\ new.updated_at >= old.updated_at

(* C6: updated_at >= created_at for every stored product and order, and a
   successful patch sets updated_at to the clock, never below its old value *)
C6_Timestamps ==
    /\ []TimestampsOrdered
    /\ [][ /\ PatchedOk("update_product")
              => Refreshed(ProductAt(last'.arg.id), Lookup(products', last'.arg.id))
           /\ PatchedOk("update_order")
              => Refreshed(OrderAt(last'.arg.id), Lookup(orders', last'.arg.id)) ]_vars

C6_Witness ==
    /\ last.op = "update_product"
    /\ last.status = "ok"
    /\ DOMAIN last.arg.patch = {}
    /\ last.ret.updated_at > last.ret.created_at

----------------------------------------------------------------------------
OrderOps == {"create_order", "update_order", "delete_order", "get_order", "list_orders"}

(* C8: no Order operation, successful or failed, changes the Product store *)
C8_OrdersLeaveProducts ==
    [][ (last = Idle /\ last'.op \in OrderOps) => products' = products ]_vars

C8_Witness ==
    /\ last.op = "create_order"
    /\ last.status = "ok"
    /\ Len(last.ret.items) > 0
    /\ Len(products) > 0

----------------------------------------------------------------------------
(* q occurs in s when letter case is ignored *)
OccursIgnoringCase(s, q) ==
    \E i \in 0..(Len(s) - Len(q)) :
        \A j \in 1..Len(q) : LowerChar(s[i + j]) = LowerChar(q[j])

Holds(q, Test(_)) == IsNone(q) \/ Test(Val(q))

AddressMatches(a, q) == \A f \in AddressFields : Holds(q[f], LAMBDA v : a[f] = v)

PersonMatches(p, q) ==
    /\ \A f \in {"uni", "first_name", "last_name", "email", "phone"} :
           Holds(q[f], LAMBDA v : p[f] = v)
    /\ Holds(q.birth_date, LAMBDA v : DateStr(p.birth_date) = v)
    /\ Holds(q.city, LAMBDA v : \E i \in DOMAIN p.addresses : p.addresses[i].city = v)
    /\ Holds(q.country, LAMBDA v : \E i \in DOMAIN p.addresses : p.addresses[i].country = v)

(* the stored entities that pass, in insertion order *)
Matching(store, Pass(_)) == SelectSeq([i \in DOMAIN store |-> store[i].val], Pass)

(* C9: List returns exactly the stored entities that satisfy every supplied
   predicate, in insertion order, and all of them when none is supplied *)
C9_ListIsFilter ==
    /\ last.op = "list_addresses"
       => last.ret = Matching(addresses, LAMBDA a : AddressMatches(a, last.arg))
    /\ last.op = "list_persons"
       => last.ret = Matching(persons, LAMBDA p : PersonMatches(p, last.arg))
    /\ last.op = "list_products"
       => last.ret = Matching(products,
              LAMBDA p : Holds(last.arg, LAMBDA v : OccursIgnoringCase(p.name, v)))
    /\ last.op = "list_orders"
       => last.ret = Matching(orders,
              LAMBDA o : Holds(last.arg, LAMBDA v : OccursIgnoringCase(o.customer_name, v)))

C9_Witness ==
    /\ last.op = "list_products"
    /\ last.arg = Some(<<"w">>)
    /\ Len(products) = 2
    /\ Len(last.ret) = 1
    /\ last.ret[1] = products[2].val

(* C10: right after a successful Create, Get of the returned id succeeds with
   the value Create returned *)
C10_GetAfterCreate ==
    /\ (last.op = "create_address" /\ last.status = "ok")
       => get_address(addresses, last.ret.id) = Ok(last.ret)
    /\ (last.op = "create_person" /\ last.status = "ok")
       => get_person(persons, last.ret.id) = Ok(last.ret)
    /\ (last.op = "create_product" /\ last.status = "ok")
       => get_product(products, last.ret.id) = Ok(last.ret)
    /\ (last.op = "create_order" /\ last.status = "ok")
       => get_order(orders, last.ret.id) = Ok(last.ret)

C10_Witness ==
    /\ last.op = "create_order"
    /\ last.status = "ok"
    /\ last.ret.total_amount > 0
    /\ last.ret.updated_at > last.ret.created_at

----------------------------------------------------------------------------
(* the step removes exactly the entry of k: the other keys remain, each with
   the entry it had, and nothing is added *)
RemovesOnly(old, new, k) ==
    /\ Keys(new) = Keys(old) \ {k}
    /\ Len(new) = Len(old) - 1
    /\ \A j \in Keys(new) : Lookup(new, j) = Lookup(old, j)

(* a key enters the store only by a successful create of that id *)
EntersByCreate(old, new, ids, op) ==
    \A k \in ids :
        (k \notin Keys(old) /\ k \in Keys(new))
            => (Serves(op) /\ last'.status = "ok" /\ last'.arg.id = k)

(* C11: delete of an absent product or order fails with NotFound and leaves
   the store as it was; delete of a stored one removes exactly that entry;
   get, patch and delete of an id that is not in the store fail with NotFound
   and change nothing, and an id comes back only by a successful create *)
C11_DeleteRemoves ==
    [][ /\ Serves("delete_product")
           => IF last'.arg \in Keys(products)
              THEN last'.status = "ok" /\ RemovesOnly(products, products', last'.arg)
              ELSE last'.status = "NotFound" /\ products' = products
        /\ Serves("delete_order")
           => IF last'.arg \in Keys(orders)
              THEN last'.status = "ok" /\ RemovesOnly(orders, orders', last'.arg)
              ELSE last'.status = "NotFound" /\ orders' = orders
        /\ (Serves("get_product") /\ last'.arg \notin Keys(products))
           => last'.status = "NotFound"
        /\ (Serves("get_order") /\ last'.arg \notin Keys(orders))
           => last'.status = "NotFound"
        /\ (Serves("update_product") /\ last'.arg.id \notin Keys(products))
           => (last'.status = "NotFound" /\ products' = products)
        /\ (Serves("update_order") /\ last'.arg.id \notin Keys(orders))
           => (last'.status = "NotFound" /\ orders' = orders)
        /\ EntersByCreate(products, products', ProductIds, "create_product")
        /\ EntersByCreate(orders, orders', OrderIds, "create_order") ]_vars

C11_Witness ==
    /\ last.op = "delete_product"
    /\ last.status = "ok"
    /\ Len(products) = 1
    /\ last.arg \notin Keys(products)

----------------------------------------------------------------------------
KeyedById ==
    /\ \A i \in DOMAIN products : products[i].val.id = products[i].key
    /\ \A i \in DOMAIN orders : orders[i].val.id = orders[i].key

(* while an entry stays in the store its id and created_at stay as they are *)
IdentityKept(old, new) ==
    \A k \in Keys(old) \cap Keys(new) :
        /\ Lookup(new, k).id = Lookup(old, k).id
        /\ Lookup(new, k).created_at = Lookup(old, k).created_at

(* C12: every stored product and order carries the id it is stored under, and
   no step, a successful patch in particular, changes the id or the created_at
   of an entry that stays in the store *)
C12_IdentityKept ==
    /\ []KeyedById
    /\ [][ IdentityKept(products, products') /\ IdentityKept(orders, orders') ]_vars

C12_Witness ==
    /\ last.op = "update_order"
    /\ last.status = "ok"
    /\ last.arg.id \in Keys(orders)
    /\ OrderAt(last.arg.id) = last.ret
    /\ last.ret.id = last.arg.id
    /\ last.ret.updated_at > last.ret.created_at

----------------------------------------------------------------------------
(* one request served alone, as the handler serves it *)
Alone(store, req) ==
    CASE req.op = "create_product" -> create_product(store, req.arg, now, now)
      [] req.op = "update_product" -> update_product(store, req.id, req.arg, now)
      [] req.op = "delete_product" -> delete_product(store, req.id)

SerialOutcome(first, second) ==
    LET x == Alone(base, threads[first].req)
        y == Alone(x.store, threads[second].req)
    IN  /\ products = y.store
        /\ threads[first].resp = x.resp
        /\ threads[second].resp = y.resp

(* C7: when both concurrent requests have returned, the store and the two
   results are those of one of the two serial orders *)
C7_Serializable ==
    (\A t \in Workers : threads[t].pc = "done")
        => (SerialOutcome(1, 2) \/ SerialOutcome(2, 1))

====
